---- MODULE Spec2Model ----
(***************************************************************************)
(* Model of the blog generation agent: GraphBuilder (graph_builder.py)     *)
(* assembling a langgraph StateGraph over BlogState, the two BlogNode      *)
(* methods (blog_node.py), and runs of the compiled graph.                 *)
(*                                                                         *)
(* The StateGraph calls made by the source (add_node, add_edge, compile,   *)
(* and the compiled graph's invoke) are modelled by what the library does  *)
(* on the inputs drawn here: add_node rejects a registered name, add_edge  *)
(* only records the edge, compile validates the edge set and copies the    *)
(* nodes and edges, invoke runs the graph in supersteps over channels that *)
(* keep the last value written.                                            *)
(***************************************************************************)
EXTENDS Naturals, Sequences, FiniteSets, TLC

\* ---------------------------------------------------------------- bounds

\* Number of runs of compiled graphs the host makes.
MaxRuns == 2
\* Number of calls the host makes directly on builder.graph (add_node/add_edge).
MaxDirectOps == 1

\* ------------------------------------------------------------ vocabulary

START == "__start__"
END == "__end__"
NodeNames == {"title_creation", "content_generation"}

\* A key that is not in a dict.
Absent == "<absent>"

\* Values of state["topic"] the host supplies: no key, a falsy one, a real one.
Topics == {Absent, "", "rust vs go"}
\* Values of response.content the LLM returns.
LLMResults == {"Rust vs Go: A Deep Dive", "## Intro"}
\* Values of the usecase argument of setup_graph.
Usecases == {"topic", "nonexistent-usecase"}

Runs == 1..MaxRuns

\* state["blog"]: a dict with optional keys title and content, or no key at all.
NoBlog == [present |-> FALSE, title |-> Absent, content |-> Absent]
Blog(t, c) == [present |-> TRUE, title |-> t, content |-> c]
\* Blogs the host may put in the initial state.
InitBlogs == {NoBlog, Blog("old title", "old content")}

\* BlogState: the dict a run carries, keys topic and blog.
BlogState(t, b) == [topic |-> t, blog |-> b]
InitStates == {BlogState(t, b) : t \in Topics, b \in InitBlogs}
EmptyState == BlogState(Absent, NoBlog)

\* Edges the host may add directly to builder.graph (all forward, so every
\* definition is acyclic).
EdgeInputs ==
    { <<START, "title_creation">>, <<START, "content_generation">>,
      <<"title_creation", "content_generation">>,
      <<"title_creation", END>>, <<"content_generation", END>> }

\* ---------------------------------------------- StateGraph (definition)

\* A StateGraph: registered nodes, edges, and the error of the call sequence
\* applied to it so far ("none" or the exception raised).
Definition(ns, es, err) == [nodes |-> ns, edges |-> es, error |-> err]

\* Mutant of add_node: a registered name is registered again without complaint.
add_node_overwrite(g, name) ==
    IF g.error # "none" THEN g
    ELSE IF name \in {START, END}
         THEN [g EXCEPT !.error = "ValueError"]
         ELSE [g EXCEPT !.nodes = @ \cup {name}]

\* self.graph.add_node(name, action)
add_node(g, name) ==
    IF g.error # "none" THEN g
    ELSE IF name \in g.nodes \/ name \in {START, END}
         THEN [g EXCEPT !.error = "ValueError"]
         ELSE [g EXCEPT !.nodes = @ \cup {name}]

\* self.graph.add_edge(start_key, end_key)
add_edge(g, a, b) ==
    IF g.error # "none" THEN g
    ELSE IF a = END \/ b = START
         THEN [g EXCEPT !.error = "ValueError"]
         ELSE [g EXCEPT !.edges = @ \cup {<<a, b>>}]

Sources(es) == {e[1] : e \in es}
Targets(es) == {e[2] : e \in es}

\* Edge endpoints that are neither registered nodes nor START/END.
Dangling(ns, es) ==
    {a \in Sources(es) : a \notin ns \cup {START}}
        \cup {b \in Targets(es) : b \notin ns \cup {END}}

\* Mutant of validate: the targets of the edges are not looked at.
validate_sources_only(ns, es) ==
    /\ \A a \in {e[1] : e \in es} : a \in ns \cup {START}
    /\ START \in {e[1] : e \in es}

\* StateGraph.validate, run by compile(): TRUE when the edge set is accepted.
validate(ns, es) ==
    /\ \A a \in Sources(es) : a \in ns \cup {START}
    /\ START \in Sources(es)
    /\ \A b \in Targets(es) : b \in ns \cup {END}

\* A CompiledGraph: its own copy of the nodes and edges.
NoGraph == [valid |-> FALSE, nodes |-> {}, edges |-> {}]
CompiledGraph(ns, es) == [valid |-> TRUE, nodes |-> ns, edges |-> es]

\* Nodes triggered by the nodes of `from` having run.
Successors(g, from) == {b \in g.nodes : \E a \in from : <<a, b>> \in g.edges}

\* The execution order of a compiled graph: its supersteps, from START.
RECURSIVE StepsFrom(_, _, _)
StepsFrom(g, frontier, k) ==
    IF frontier = {} \/ k = 0 THEN << >>
    ELSE <<frontier>> \o StepsFrom(g, Successors(g, frontier), k - 1)

ExecOrder(g) == StepsFrom(g, Successors(g, {START}), Cardinality(g.nodes) + 1)

\* ------------------------------------------------------------- BlogNode

\* Mutant of TopicPresent: only the key is tested, not its truth.
TopicKeyPresent(s) == s.topic # Absent

\* `if "topic" in state and state["topic"]`
TopicPresent(s) == s.topic # Absent /\ s.topic # ""

\* What a node call ends with: None, a partial update {"blog": ...}, or an
\* exception.
ReturnNone == [kind |-> "none", blog |-> NoBlog, error |-> "none"]
ReturnBlog(b) == [kind |-> "update", blog |-> b, error |-> "none"]
Raise(e) == [kind |-> "raise", blog |-> NoBlog, error |-> e]

\* prompt.format(topic=state["topic"]): the template with the topic in it.
Prompt(template, s) == [template |-> template, topic |-> s.topic]

\* Mutant of title_creation: the title is the topic, not the response.
title_creation_echo(s, response) ==
    IF s.topic # Absent /\ s.topic # ""
    THEN [kind |-> "update", blog |-> [present |-> TRUE, title |-> s.topic, content |-> Absent],
          error |-> "none"]
    ELSE [kind |-> "none", blog |-> NoBlog, error |-> "none"]

\* Mutant of title_creation: the response is dropped, nothing is returned.
title_creation_no_return(s, response) ==
    [kind |-> "none", blog |-> NoBlog, error |-> "none"]

\* BlogNode.title_creation, given the content of the LLM's response.
title_creation(s, response) ==
    IF TopicPresent(s)
    THEN ReturnBlog(Blog(response, Absent))
    ELSE ReturnNone

\* Mutant of content_generation: the title is not carried into the update.
content_generation_no_carry(s, response) ==
    IF s.topic # Absent /\ s.topic # ""
    THEN [kind |-> "update", blog |-> [present |-> TRUE, title |-> Absent, content |-> response],
          error |-> "none"]
    ELSE [kind |-> "none", blog |-> NoBlog, error |-> "none"]

\* Mutant of content_generation: a missing title is read as an empty one.
content_generation_default_title(s, response) ==
    IF s.topic # Absent /\ s.topic # ""
    THEN [kind |-> "update",
          blog |-> [present |-> TRUE,
                    title |-> IF s.blog.present /\ s.blog.title # Absent
                              THEN s.blog.title ELSE "",
                    content |-> response],
          error |-> "none"]
    ELSE [kind |-> "none", blog |-> NoBlog, error |-> "none"]

\* BlogNode.content_generation, given the content of the LLM's response:
\* state['blog']['title'] raises KeyError when either key is missing.
content_generation(s, response) ==
    IF TopicPresent(s)
    THEN IF s.blog.present /\ s.blog.title # Absent
         THEN ReturnBlog(Blog(s.blog.title, response))
         ELSE Raise("KeyError")
    ELSE ReturnNone

\* The action registered under a node name (add_node's second argument).
NodeAction(n, s, response) ==
    IF n = "title_creation" THEN title_creation(s, response)
    ELSE content_generation(s, response)

\* Mutant of NodeOnLLMError: the action catches the exception and returns None.
NodeCatchesLLMError(n) == [kind |-> "none", blog |-> NoBlog, error |-> "none"]

\* What a node's action ends with when its llm.invoke raises: neither action
\* has a try around the call, so the exception leaves the action.
NodeOnLLMError(n) == Raise("UpstreamCallError")

NodePrompt(n, s) ==
    IF n = "title_creation" THEN Prompt("title", s) ELSE Prompt("content", s)

\* ---------------------------------------------------------------- state

VARIABLES
    nodes,          \* graph_builder.graph.nodes
    edges,          \* graph_builder.graph.edges
    builderCompiled,\* graph_builder.graph.compiled
    compiled,       \* the CompiledGraph the host holds (the last one returned)
    prevCompiled,   \* the CompiledGraph returned before that one
    lastCall,       \* the last call on the builder and how it ended
    directOps,      \* direct calls made on builder.graph so far
    pc,             \* per run: "idle", "running", "done", "failed"
    runGraph,       \* per run: the CompiledGraph it executes
    initState,      \* per run: the state passed to invoke
    state,          \* per run: the channel values
    tasks,          \* per run and node: the task of the current superstep
    error,          \* per run: the exception invoke raised, or "none"
    result,         \* per run: what invoke returned
    invoked,        \* per run and node: calls of the node's action started
    completed,      \* per run and node: calls of the node's action ended
    llmCalls,       \* per run and node: calls of llm.invoke made
    response        \* per run and node: content of the last response it got

builderVars == <<nodes, edges, builderCompiled, compiled, prevCompiled, lastCall,
                 directOps>>
runVars == <<pc, runGraph, initState, state, tasks, error, result,
             invoked, completed, llmCalls, response>>
vars == <<nodes, edges, builderCompiled, compiled, prevCompiled, lastCall,
          directOps, pc, runGraph, initState, state, tasks, error, result,
          invoked, completed, llmCalls, response>>

Call(op, arg, err) == [op |-> op, arg |-> arg, error |-> err]

IdleTask == [status |-> "idle", prompt |-> Prompt("", EmptyState), out |-> ReturnNone]
NoResult == [returned |-> FALSE, state |-> EmptyState]

\* GraphBuilder.__init__: an empty StateGraph; no run made yet.
Init ==
    /\ nodes = {}
    /\ edges = {}
    /\ builderCompiled = FALSE
    /\ compiled = NoGraph
    /\ prevCompiled = NoGraph
    /\ lastCall = Call("__init__", "", "none")
    /\ directOps = 0
    /\ pc = [r \in Runs |-> "idle"]
    /\ runGraph = [r \in Runs |-> NoGraph]
    /\ initState = [r \in Runs |-> EmptyState]
    /\ state = [r \in Runs |-> EmptyState]
    /\ tasks = [r \in Runs |-> [n \in NodeNames |-> IdleTask]]
    /\ error = [r \in Runs |-> "none"]
    /\ result = [r \in Runs |-> NoResult]
    /\ invoked = [r \in Runs |-> [n \in NodeNames |-> 0]]
    /\ completed = [r \in Runs |-> [n \in NodeNames |-> 0]]
    /\ llmCalls = [r \in Runs |-> [n \in NodeNames |-> 0]]
    /\ response = [r \in Runs |-> [n \in NodeNames |-> Absent]]

\* --------------------------------------------------------- GraphBuilder

\* Mutant of TopicGraphOps: the two nodes are chained the other way round.
TopicGraphOpsSwapped(g) ==
    add_edge(
      add_edge(
        add_edge(
          add_node(
            add_node(g, "title_creation"),
            "content_generation"),
          START, "content_generation"),
        "content_generation", "title_creation"),
      "title_creation", END)

\* The body of build_topic_graph applied to a definition: the five calls in
\* order, stopping at the first that raises.
TopicGraphOps(g) ==
    add_edge(
      add_edge(
        add_edge(
          add_node(
            add_node(g, "title_creation"),
            "content_generation"),
          START, "title_creation"),
        "title_creation", "content_generation"),
      "content_generation", END)

\* self.graph.compile() on a definition: [ok, graph].
Compile(ns, es) ==
    IF validate(ns, es)
    THEN [ok |-> TRUE, graph |-> CompiledGraph(ns, es)]
    ELSE [ok |-> FALSE, graph |-> NoGraph]

\* graph_builder.build_topic_graph()
build_topic_graph ==
    LET g == TopicGraphOps(Definition(nodes, edges, "none")) IN
    /\ nodes' = g.nodes
    /\ edges' = g.edges
    /\ lastCall' = Call("build_topic_graph", "", g.error)
    /\ UNCHANGED <<builderCompiled, compiled, prevCompiled, directOps>>
    /\ UNCHANGED runVars

\* Mutant of setup_graph: the topic topology is built whatever the usecase.
setup_graph_any_usecase(usecase) ==
    LET g == TopicGraphOps(Definition(nodes, edges, "none"))
        c == Compile(g.nodes, g.edges)
    IN
    /\ nodes' = g.nodes
    /\ edges' = g.edges
    /\ IF g.error # "none"
       THEN /\ lastCall' = Call("setup_graph", usecase, g.error)
            /\ UNCHANGED <<builderCompiled, compiled, prevCompiled>>
       ELSE IF c.ok
       THEN /\ lastCall' = Call("setup_graph", usecase, "none")
            /\ builderCompiled' = TRUE
            /\ compiled' = c.graph
            /\ prevCompiled' = compiled
       ELSE /\ lastCall' = Call("setup_graph", usecase, "ValueError")
            /\ UNCHANGED <<builderCompiled, compiled, prevCompiled>>
    /\ UNCHANGED directOps
    /\ UNCHANGED runVars

\* graph_builder.setup_graph(usecase)
setup_graph(usecase) ==
    LET g == IF usecase = "topic"
             THEN TopicGraphOps(Definition(nodes, edges, "none"))
             ELSE Definition(nodes, edges, "none")
        c == Compile(g.nodes, g.edges)
    IN
    /\ nodes' = g.nodes
    /\ edges' = g.edges
    /\ IF g.error # "none"
       THEN /\ lastCall' = Call("setup_graph", usecase, g.error)
            /\ UNCHANGED <<builderCompiled, compiled, prevCompiled>>
       ELSE IF c.ok
       THEN /\ lastCall' = Call("setup_graph", usecase, "none")
            /\ builderCompiled' = TRUE
            /\ compiled' = c.graph
            /\ prevCompiled' = compiled
       ELSE /\ lastCall' = Call("setup_graph", usecase, "ValueError")
            /\ UNCHANGED <<builderCompiled, compiled, prevCompiled>>
    /\ UNCHANGED directOps
    /\ UNCHANGED runVars

\* Mutant of compile: a builder already flagged as compiled yields a graph
\* of the edges added since its last compile only.
compile_incremental ==
    LET c == Compile(nodes, edges) IN
    /\ IF c.ok
       THEN /\ lastCall' = Call("compile", "", "none")
            /\ builderCompiled' = TRUE
            /\ compiled' = IF builderCompiled
                           THEN CompiledGraph(nodes, edges \ compiled.edges)
                           ELSE c.graph
            /\ prevCompiled' = compiled
       ELSE /\ lastCall' = Call("compile", "", "ValueError")
            /\ UNCHANGED <<builderCompiled, compiled, prevCompiled>>
    /\ UNCHANGED <<nodes, edges, directOps>>
    /\ UNCHANGED runVars

\* graph_builder.graph.compile(), as the module does after build_topic_graph()
compile ==
    LET c == Compile(nodes, edges) IN
    /\ IF c.ok
       THEN /\ lastCall' = Call("compile", "", "none")
            /\ builderCompiled' = TRUE
            /\ compiled' = c.graph
            /\ prevCompiled' = compiled
       ELSE /\ lastCall' = Call("compile", "", "ValueError")
            /\ UNCHANGED <<builderCompiled, compiled, prevCompiled>>
    /\ UNCHANGED <<nodes, edges, directOps>>
    /\ UNCHANGED runVars

\* graph_builder.graph.add_node(name, ...) called by the host
HostAddNode(name) ==
    LET g == add_node(Definition(nodes, edges, "none"), name) IN
    /\ directOps < MaxDirectOps
    /\ directOps' = directOps + 1
    /\ nodes' = g.nodes
    /\ lastCall' = Call("add_node", name, g.error)
    /\ UNCHANGED <<edges, builderCompiled, compiled, prevCompiled>>
    /\ UNCHANGED runVars

\* Mutant of HostAddEdge: the compiled graph shares the definition's edge set.
HostAddEdgeAliased(a, b) ==
    LET g == add_edge(Definition(nodes, edges, "none"), a, b) IN
    /\ directOps < MaxDirectOps
    /\ directOps' = directOps + 1
    /\ edges' = g.edges
    /\ compiled' = IF compiled.valid THEN [compiled EXCEPT !.edges = g.edges] ELSE compiled
    /\ lastCall' = Call("add_edge", a, g.error)
    /\ UNCHANGED <<nodes, builderCompiled, prevCompiled>>
    /\ UNCHANGED runVars

\* graph_builder.graph.add_edge(a, b) called by the host
HostAddEdge(a, b) ==
    LET g == add_edge(Definition(nodes, edges, "none"), a, b) IN
    /\ directOps < MaxDirectOps
    /\ directOps' = directOps + 1
    /\ edges' = g.edges
    /\ lastCall' = Call("add_edge", a, g.error)
    /\ UNCHANGED <<nodes, builderCompiled, compiled, prevCompiled>>
    /\ UNCHANGED runVars

\* ------------------------------------------------- CompiledGraph.invoke

\* Mutant of Merge: the update replaces the whole state, not its own keys.
MergeReplacesState(s, out) ==
    IF out.kind = "update" THEN [topic |-> Absent, blog |-> out.blog] ELSE s

\* A node's partial update merged into the state: the channel of every key
\* of the update takes the update's value, the others keep theirs.
\* Mutant of Merge: the update is merged into the blog key by key.
MergeDeep(s, out) ==
    IF out.kind = "update"
    THEN [s EXCEPT !.blog =
             [present |-> TRUE,
              title |-> IF out.blog.title # Absent THEN out.blog.title ELSE s.blog.title,
              content |-> IF out.blog.content # Absent THEN out.blog.content
                          ELSE s.blog.content]]
    ELSE s

Merge(s, out) ==
    IF out.kind = "update" THEN [s EXCEPT !.blog = out.blog] ELSE s

ScheduledTask == [status |-> "scheduled", prompt |-> Prompt("", EmptyState), out |-> ReturnNone]
Schedule(ns) == [n \in NodeNames |-> IF n \in ns THEN ScheduledTask ELSE IdleTask]
NoTasks == [n \in NodeNames |-> IdleTask]

\* A run's position: what the engine holds for it.
Position(p, s, ts, e, res) ==
    [pc |-> p, state |-> s, tasks |-> ts, error |-> e, result |-> res]

Abort(s, e) == Position("failed", s, NoTasks, e, NoResult)

\* Mutant of StepEnd: with no successor left the run starts over from START.
StepEndLooping(g, s, ts) ==
    LET ran == {n \in NodeNames : ts[n].status = "finished"}
        writers == {n \in ran : ts[n].out.kind = "update"}
        merged == IF writers = {} THEN s
                  ELSE Merge(s, ts[CHOOSE n \in writers : TRUE].out)
        next == IF Successors(g, ran) = {} THEN Successors(g, {START})
                ELSE Successors(g, ran)
    IN
    IF \E n \in NodeNames : ts[n].status \in {"scheduled", "calling"}
    THEN Position("running", s, ts, "none", NoResult)
    ELSE IF Cardinality(writers) > 1
    THEN Abort(s, "InvalidUpdateError")
    ELSE Position("running", merged, Schedule(next), "none", NoResult)

\* The engine after a task of the superstep has ended, ts being the tasks
\* with that one finished. While a task of the step is unfinished nothing
\* else happens. At the end of the step the updates are written: two
\* updates of the one key are refused; then the successors of the nodes
\* that ran are scheduled, and with none left invoke returns the state.
StepEnd(g, s, ts) ==
    LET ran == {n \in NodeNames : ts[n].status = "finished"}
        writers == {n \in ran : ts[n].out.kind = "update"}
        merged == IF writers = {} THEN s
                  ELSE Merge(s, ts[CHOOSE n \in writers : TRUE].out)
        next == Successors(g, ran)
    IN
    IF \E n \in NodeNames : ts[n].status \in {"scheduled", "calling"}
    THEN Position("running", s, ts, "none", NoResult)
    ELSE IF Cardinality(writers) > 1
    THEN Abort(s, "InvalidUpdateError")
    ELSE IF next = {}
    THEN Position("done", merged, NoTasks, "none", [returned |-> TRUE, state |-> merged])
    ELSE Position("running", merged, Schedule(next), "none", NoResult)

\* The engine after node n's action ended with `out`: an exception aborts
\* the run, anything else finishes the task.
TaskEnd(g, s, ts, n, out) ==
    IF out.kind = "raise"
    THEN Abort(s, out.error)
    ELSE StepEnd(g, s, [ts EXCEPT ![n] = [@ EXCEPT !.status = "finished", !.out = out]])

\* Mutant of SetPosition: the runs share one state instance.
SetPositionShared(r, p) ==
    /\ pc' = [pc EXCEPT ![r] = p.pc]
    /\ state' = [q \in Runs |-> IF q = r \/ pc[q] = "running" THEN p.state ELSE state[q]]
    /\ tasks' = [tasks EXCEPT ![r] = p.tasks]
    /\ error' = [error EXCEPT ![r] = p.error]
    /\ result' = [result EXCEPT ![r] = p.result]

SetPosition(r, p) ==
    /\ pc' = [pc EXCEPT ![r] = p.pc]
    /\ state' = [state EXCEPT ![r] = p.state]
    /\ tasks' = [tasks EXCEPT ![r] = p.tasks]
    /\ error' = [error EXCEPT ![r] = p.error]
    /\ result' = [result EXCEPT ![r] = p.result]

\* compiled.invoke(s): run r starts on the host's compiled graph. The input
\* is written to the channels and the successors of START are scheduled.
invoke(r, s) ==
    /\ pc[r] = "idle"
    /\ \A q \in Runs : q < r => pc[q] # "idle"
    /\ compiled.valid
    /\ runGraph' = [runGraph EXCEPT ![r] = compiled]
    /\ initState' = [initState EXCEPT ![r] = s]
    /\ LET first == Successors(compiled, {START}) IN
       IF first = {}
       THEN SetPosition(r, Position("done", s, NoTasks, "none",
                                    [returned |-> TRUE, state |-> s]))
       ELSE SetPosition(r, Position("running", s, Schedule(first), "none", NoResult))
    /\ UNCHANGED <<invoked, completed, llmCalls, response>>
    /\ UNCHANGED builderVars

\* Mutant of NodeEnter: a response another run got for the same prompt is
\* used again instead of calling llm.invoke.
NodeEnterCached(r, n) ==
    LET hits == {q \in Runs \ {r} : /\ response[q][n] # Absent
                                     /\ initState[q].topic = state[r].topic}
    IN
    /\ pc[r] = "running"
    /\ tasks[r][n].status = "scheduled"
    /\ invoked' = [invoked EXCEPT ![r][n] = @ + 1]
    /\ IF TopicPresent(state[r]) /\ hits = {}
       THEN /\ llmCalls' = [llmCalls EXCEPT ![r][n] = @ + 1]
            /\ tasks' = [tasks EXCEPT ![r][n] =
                            [@ EXCEPT !.status = "calling",
                                      !.prompt = NodePrompt(n, state[r])]]
            /\ UNCHANGED <<pc, state, error, result, completed, response>>
       ELSE /\ completed' = [completed EXCEPT ![r][n] = @ + 1]
            /\ LET x == IF hits = {} THEN Absent
                        ELSE response[CHOOSE q \in hits : TRUE][n]
               IN /\ response' = [response EXCEPT ![r][n] = x]
                  /\ SetPosition(r, TaskEnd(runGraph[r], state[r], tasks[r], n,
                                            NodeAction(n, state[r], x)))
            /\ UNCHANGED llmCalls
    /\ UNCHANGED <<runGraph, initState>>
    /\ UNCHANGED builderVars

\* The engine calls node n's action on the state of run r. Without a topic
\* the action returns None at once; with one it formats its prompt and
\* calls llm.invoke, which blocks.
NodeEnter(r, n) ==
    /\ pc[r] = "running"
    /\ tasks[r][n].status = "scheduled"
    /\ invoked' = [invoked EXCEPT ![r][n] = @ + 1]
    /\ IF TopicPresent(state[r])
       THEN /\ llmCalls' = [llmCalls EXCEPT ![r][n] = @ + 1]
            /\ tasks' = [tasks EXCEPT ![r][n] =
                            [@ EXCEPT !.status = "calling",
                                      !.prompt = NodePrompt(n, state[r])]]
            /\ UNCHANGED <<pc, state, error, result, completed>>
       ELSE /\ completed' = [completed EXCEPT ![r][n] = @ + 1]
            /\ SetPosition(r, TaskEnd(runGraph[r], state[r], tasks[r], n,
                                      NodeAction(n, state[r], "")))
            /\ UNCHANGED llmCalls
    /\ UNCHANGED <<runGraph, initState, response>>
    /\ UNCHANGED builderVars

\* llm.invoke returns a response with content x to node n of run r; the
\* action runs to its end.
LLMReturn(r, n, x) ==
    /\ pc[r] = "running"
    /\ tasks[r][n].status = "calling"
    /\ completed' = [completed EXCEPT ![r][n] = @ + 1]
    /\ response' = [response EXCEPT ![r][n] = x]
    /\ SetPosition(r, TaskEnd(runGraph[r], state[r], tasks[r], n,
                              NodeAction(n, state[r], x)))
    /\ UNCHANGED <<runGraph, initState, invoked, llmCalls>>
    /\ UNCHANGED builderVars

\* llm.invoke raises in node n of run r; the action does not catch it.
LLMFail(r, n) ==
    /\ pc[r] = "running"
    /\ tasks[r][n].status = "calling"
    /\ completed' = [completed EXCEPT ![r][n] = @ + 1]
    /\ SetPosition(r, TaskEnd(runGraph[r], state[r], tasks[r], n,
                              NodeOnLLMError(n)))
    /\ UNCHANGED <<runGraph, initState, invoked, llmCalls, response>>
    /\ UNCHANGED builderVars

\* -------------------------------------------------------- specification

\* The calls made on the GraphBuilder and its StateGraph.
BuilderNext ==
    \/ build_topic_graph
    \/ \E u \in Usecases : setup_graph(u)
    \/ compile
    \/ \E n \in NodeNames : HostAddNode(n)
    \/ \E e \in EdgeInputs : HostAddEdge(e[1], e[2])

\* The steps of the runs of the host's compiled graph.
RunNext ==
    \/ \E r \in Runs, s \in InitStates : invoke(r, s)
    \/ \E r \in Runs, n \in NodeNames : NodeEnter(r, n)
    \/ \E r \in Runs, n \in NodeNames, x \in LLMResults : LLMReturn(r, n, x)
    \/ \E r \in Runs, n \in NodeNames : LLMFail(r, n)

\* The builder from its construction on: every sequence of calls on it.
BuilderSpec == Init /\ [][BuilderNext]_vars

\* The edges build_topic_graph() leaves on a new GraphBuilder.
ShippedEdges == TopicGraphOps(Definition({}, {}, "none")).edges

\* The definitions the runs are made on: the one build_topic_graph() leaves
\* on a new GraphBuilder, as it is or with one more edge added to it.
DefinitionInputs ==
    LET d == TopicGraphOps(Definition({}, {}, "none")) IN
    {d} \cup {add_edge(d, e[1], e[2]) : e \in EdgeInputs}

\* The module once loaded: the builder after build_topic_graph() (and the
\* added edge, if any) and compile(), the host holding the compiled graph;
\* no run made yet. These are states BuilderSpec reaches.
RunInit ==
    /\ \E d \in DefinitionInputs :
          /\ nodes = d.nodes
          /\ edges = d.edges
          /\ compiled = Compile(d.nodes, d.edges).graph
          /\ directOps = IF d.edges = ShippedEdges THEN 0 ELSE 1
    /\ builderCompiled = TRUE
    /\ prevCompiled = NoGraph
    /\ lastCall = Call("compile", "", "none")
    /\ pc = [r \in Runs |-> "idle"]
    /\ runGraph = [r \in Runs |-> NoGraph]
    /\ initState = [r \in Runs |-> EmptyState]
    /\ state = [r \in Runs |-> EmptyState]
    /\ tasks = [r \in Runs |-> [n \in NodeNames |-> IdleTask]]
    /\ error = [r \in Runs |-> "none"]
    /\ result = [r \in Runs |-> NoResult]
    /\ invoked = [r \in Runs |-> [n \in NodeNames |-> 0]]
    /\ completed = [r \in Runs |-> [n \in NodeNames |-> 0]]
    /\ llmCalls = [r \in Runs |-> [n \in NodeNames |-> 0]]
    /\ response = [r \in Runs |-> [n \in NodeNames |-> Absent]]

\* The runs of a compiled graph, in every interleaving of their steps.
RunSpec == RunInit /\ [][RunNext]_vars

\* The engine goes on with a run it has started, and every llm.invoke call
\* eventually returns or raises. Nothing makes the host start a run.
RunFairness ==
    \A r \in Runs, n \in NodeNames :
        /\ WF_vars(NodeEnter(r, n))
        /\ WF_vars((\E x \in LLMResults : LLMReturn(r, n, x)) \/ LLMFail(r, n))

\* The runs of a compiled graph in which no started run is left waiting.
RunSpecFair == RunSpec /\ RunFairness

\* --------------------------------------------------------------- claims

\* The caller gave a topic: the key is there and its value is not empty.
TopicGiven(s) == s.topic \notin {Absent, ""}

HasTitle(s) == s.blog.present /\ s.blog.title # Absent
HasContent(s) == s.blog.present /\ s.blog.content # Absent

\* The topology shipped: what build_topic_graph().compile() yields on a new
\* GraphBuilder.
ShippedTopology ==
    LET g == TopicGraphOps(Definition({}, {}, "none")) IN Compile(g.nodes, g.edges).graph

\* Run r executes the shipped topology.
Shipped(r) == pc[r] # "idle" /\ runGraph[r] = ShippedTopology

\* C1: in a run of the shipped topology started with a non-empty topic, each
\* node is invoked at most once, content_generation is not invoked before
\* the one invocation of title_creation has completed, and a run that
\* returns has invoked and completed each node exactly once.
C1_TitleOnceThenContentOnce ==
    \A r \in Runs :
        (Shipped(r) /\ TopicGiven(initState[r])) =>
            /\ \A n \in NodeNames : invoked[r][n] <= 1
            /\ invoked[r]["content_generation"] >= 1 =>
                   /\ invoked[r]["title_creation"] = 1
                   /\ completed[r]["title_creation"] = 1
            /\ pc[r] = "done" =>
                   \A n \in NodeNames : invoked[r][n] = 1 /\ completed[r][n] = 1

C1_Witness ==
    \E r \in Runs :
        /\ Shipped(r) /\ TopicGiven(initState[r])
        /\ pc[r] = "done"
        /\ invoked[r]["content_generation"] = 1

\* C2: a run of the shipped topology started with a non-empty topic T in
\* which the title call returned X and the content call returned Y returns
\* exactly {topic: T, blog: {title: X, content: Y}}.
C2_FinalStateIsTopicTitleContent ==
    \A r \in Runs :
        (Shipped(r) /\ TopicGiven(initState[r]) /\ pc[r] = "done") =>
            /\ response[r]["title_creation"] \in LLMResults
            /\ response[r]["content_generation"] \in LLMResults
            /\ result[r] =
                 [returned |-> TRUE,
                  state |-> BlogState(initState[r].topic,
                                      Blog(response[r]["title_creation"],
                                           response[r]["content_generation"]))]

C2_Witness ==
    \E r \in Runs :
        /\ Shipped(r) /\ pc[r] = "done"
        /\ initState[r] = BlogState("rust vs go", NoBlog)
        /\ result[r].state =
             BlogState("rust vs go", Blog("Rust vs Go: A Deep Dive", "## Intro"))

\* C3: no step of a run clears blog.title once it is set, a step that sets
\* or changes blog.content does so on a state that has blog.title and leaves
\* it set, and a run started without a blog never holds a content without
\* a title.
C3_TitleNeverClearedContentAfterTitle ==
    /\ [](\A r \in Runs :
            (pc[r] # "idle" /\ ~initState[r].blog.present) =>
                (HasContent(state[r]) => HasTitle(state[r])))
    /\ [][\A r \in Runs :
            pc[r] = "running" =>
                /\ HasTitle(state[r]) => HasTitle(state'[r])
                /\ (HasContent(state'[r])
                      /\ state'[r].blog.content # state[r].blog.content) =>
                        (HasTitle(state[r]) /\ HasTitle(state'[r]))]_vars

C3_Witness ==
    \E r \in Runs :
        /\ pc[r] = "done"
        /\ HasTitle(state[r])
        /\ state[r].blog.content \in LLMResults

\* C4: a run started on a state whose topic is absent or empty makes no LLM
\* call in either node, does not fail, leaves the state as it was given, and
\* returns it: with no blog key when it was given none.
C4_NoTopicNoCallNoBlog ==
    \A r \in Runs :
        (pc[r] # "idle" /\ ~TopicGiven(initState[r])) =>
            /\ \A n \in NodeNames : llmCalls[r][n] = 0
            /\ pc[r] # "failed" /\ error[r] = "none"
            /\ state[r] = initState[r]
            /\ pc[r] = "done" =>
                   /\ result[r] = [returned |-> TRUE, state |-> initState[r]]
                   /\ ~initState[r].blog.present => ~result[r].state.blog.present

C4_Witness ==
    \E r \in Runs, q \in Runs :
        /\ Shipped(r) /\ pc[r] = "done"
        /\ initState[r] = BlogState(Absent, NoBlog)
        /\ \A n \in NodeNames : invoked[r][n] = 1
        /\ Shipped(q) /\ pc[q] = "done"
        /\ initState[q] = BlogState("", NoBlog)

\* C5: when llm.invoke raises in a node, the run fails at that step with the
\* error raised, holding the state it had and returning nothing; a failed
\* run stays failed with the same error, invokes no node, makes no LLM call
\* and never returns a state.
C5_LLMFailureAbortsRun ==
    [][\A r \in Runs :
         /\ \A n \in NodeNames :
                LLMFail(r, n) =>
                    /\ pc'[r] = "failed"
                    /\ error'[r] = "UpstreamCallError"
                    /\ result'[r] = NoResult
                    /\ state'[r] = state[r]
         /\ pc[r] = "failed" =>
                /\ pc'[r] = "failed"
                /\ error'[r] = error[r]
                /\ result'[r] = NoResult
                /\ invoked'[r] = invoked[r]
                /\ llmCalls'[r] = llmCalls[r]]_vars

\* A run of the shipped topology that failed in content_generation, holding
\* the title only.
C5_Witness ==
    \E r \in Runs :
        /\ Shipped(r) /\ pc[r] = "failed"
        /\ error[r] = "UpstreamCallError"
        /\ ~initState[r].blog.present
        /\ HasTitle(state[r]) /\ ~HasContent(state[r])
        /\ llmCalls[r]["content_generation"] = 1
        /\ result[r] = NoResult

\* A step in which an invocation of content_generation, made on a state of
\* run r with a topic and without blog.title, ends.
ContentEndsWithoutTitle(r) ==
    /\ completed'[r]["content_generation"] = completed[r]["content_generation"] + 1
    /\ TopicGiven(state[r])
    /\ ~HasTitle(state[r])

\* C6 as claimed: every invocation of content_generation on a state with a
\* topic and without blog.title ends with the missing-field error (KeyError),
\* no update and the run aborted.
C6_Original ==
    [][\A r \in Runs :
         ContentEndsWithoutTitle(r) =>
             /\ pc'[r] = "failed"
             /\ error'[r] = "KeyError"
             /\ state'[r] = state[r]
             /\ result'[r] = NoResult]_vars

\* C6 amended: such an invocation has made its LLM call before it reads the
\* title; it ends with KeyError when the call returned and with the call's
\* own error when the call failed, in both cases with no update and the run
\* aborted.
C6_MissingTitleFailsAfterLLMCall ==
    [][\A r \in Runs :
         ContentEndsWithoutTitle(r) =>
             /\ llmCalls[r]["content_generation"] >= 1
             /\ pc'[r] = "failed"
             /\ state'[r] = state[r]
             /\ result'[r] = NoResult
             /\ (\E x \in LLMResults : LLMReturn(r, "content_generation", x)) =>
                    error'[r] = "KeyError"
             /\ LLMFail(r, "content_generation") =>
                    error'[r] = "UpstreamCallError"
             /\ error'[r] \in {"KeyError", "UpstreamCallError"}]_vars

C6_Witness ==
    \E r \in Runs :
        /\ pc[r] = "failed"
        /\ error[r] = "KeyError"
        /\ TopicGiven(state[r]) /\ ~HasTitle(state[r])
        /\ response[r]["content_generation"] \in LLMResults
        /\ llmCalls[r]["content_generation"] = 1
        /\ result[r] = NoResult

\* C7 as claimed: setup_graph with a usecase other than "topic" never raises.
C7_Original ==
    (lastCall.op = "setup_graph" /\ lastCall.arg # "topic") => lastCall.error = "none"

\* C7 amended: setup_graph with a usecase other than "topic" adds no node
\* and no edge and ends as compile() of the definition as it stands does:
\* it returns the compiled form when the definition validates and raises
\* the validation error, returning nothing, when it does not (as for an
\* empty definition).
C7_UnknownUsecaseCompilesDefinitionAsIs ==
    [][\A u \in Usecases \ {"topic"} :
         setup_graph(u) =>
             /\ nodes' = nodes
             /\ edges' = edges
             /\ IF Compile(nodes, edges).ok
                THEN /\ lastCall'.error = "none"
                     /\ compiled' = CompiledGraph(nodes, edges)
                ELSE /\ lastCall'.error = "ValueError"
                     /\ compiled' = compiled]_vars

C7_Witness ==
    /\ lastCall = Call("setup_graph", "nonexistent-usecase", "none")
    /\ compiled = CompiledGraph(nodes, edges)
    /\ nodes = NodeNames

\* C8: compile() of a definition holding an edge whose endpoint is not a
\* registered node raises the validation error and returns no compiled
\* graph; no compiled graph the host holds, and so none it can run, has such
\* an edge.
C8_DanglingEdgeFailsCompile ==
    /\ [](Dangling(compiled.nodes, compiled.edges) = {}
            /\ Dangling(prevCompiled.nodes, prevCompiled.edges) = {})
    /\ [][((compile \/ \E u \in Usecases : setup_graph(u))
             /\ Dangling(nodes', edges') # {}) =>
                /\ lastCall'.error = "ValueError"
                /\ compiled' = compiled
                /\ prevCompiled' = prevCompiled]_vars

C8_Witness ==
    /\ lastCall = Call("compile", "", "ValueError")
    /\ Dangling(nodes, edges) # {}

\* A call that compiles the definition: compile(), or setup_graph.
CompileStep == compile \/ \E u \in Usecases : setup_graph(u)

C10_DuplicateNodeRejected ==
    [][/\ \A n \in NodeNames :
            (HostAddNode(n) /\ n \in nodes) =>
                /\ lastCall'.error = "ValueError"
                /\ nodes' = nodes
                /\ edges' = edges
       /\ ((build_topic_graph \/ setup_graph("topic"))
             /\ "title_creation" \in nodes) =>
                /\ lastCall'.error = "ValueError"
                /\ nodes' = nodes
                /\ edges' = edges
                /\ compiled' = compiled]_vars

\* A second build_topic_graph on a builder nothing else was done to.
C10_Witness ==
    /\ lastCall = Call("build_topic_graph", "", "ValueError")
    /\ directOps = 0
    /\ nodes = NodeNames
    /\ edges = ShippedEdges

\* C11: no step of a run changes topic: in every state of a run, and in the
\* state it returns, topic is the topic of the initial state.
C11_TopicNeverChanges ==
    \A r \in Runs :
        pc[r] # "idle" =>
            /\ state[r].topic = initState[r].topic
            /\ result[r].returned => result[r].state.topic = initState[r].topic

\* A run that returned with a blog other than the one it was given.
C11_Witness ==
    \E r \in Runs :
        /\ pc[r] = "done"
        /\ initState[r].topic = "rust vs go"
        /\ result[r].state.blog # initState[r].blog
        /\ result[r].state.topic = "rust vs go"

\* C12 as claimed: every node invocation makes exactly one call of the LLM.
C12_Original ==
    \A r \in Runs, n \in NodeNames : llmCalls[r][n] = invoked[r][n]

\* C12 amended: a node invocation makes exactly one call of the LLM when the
\* state has a non-empty topic and none when it has not; a call is not made
\* again after it failed, and a run makes its own calls whatever the other
\* runs were answered.
C12_OneCallPerInvocationWithTopic ==
    /\ [](\A r \in Runs, n \in NodeNames :
            llmCalls[r][n] = IF TopicGiven(initState[r]) THEN invoked[r][n] ELSE 0)
    /\ [][\A r \in Runs, n \in NodeNames :
            /\ invoked'[r][n] \in {invoked[r][n], invoked[r][n] + 1}
            /\ (invoked'[r][n] = invoked[r][n] + 1 /\ TopicGiven(state[r])) =>
                   llmCalls'[r][n] = llmCalls[r][n] + 1
            /\ invoked'[r][n] = invoked[r][n] => llmCalls'[r][n] = llmCalls[r][n]]_vars

\* Two runs on the same topic, each having made its own two calls.
C12_Witness ==
    /\ \A r \in Runs :
          /\ pc[r] = "done"
          /\ initState[r].topic = "rust vs go"
          /\ \A n \in NodeNames : invoked[r][n] = 1 /\ llmCalls[r][n] = 1
    /\ \E r \in Runs, q \in Runs : r # q /\ initState[r] = initState[q]

\* What a run returns, from its initial state and the responses it got.
ExpectedResult(init, resp) ==
    IF TopicGiven(init)
    THEN BlogState(init.topic,
                   Blog(resp["title_creation"], resp["content_generation"]))
    ELSE init

\* Everything the engine holds for run q is left as it is.
RunUntouched(q) ==
    /\ pc'[q] = pc[q]
    /\ runGraph'[q] = runGraph[q]
    /\ initState'[q] = initState[q]
    /\ state'[q] = state[q]
    /\ tasks'[q] = tasks[q]
    /\ error'[q] = error[q]
    /\ result'[q] = result[q]
    /\ invoked'[q] = invoked[q]
    /\ completed'[q] = completed[q]
    /\ llmCalls'[q] = llmCalls[q]
    /\ response'[q] = response[q]

\* C13: in every interleaving of the steps of the runs, a step of one run
\* leaves everything of the other runs as it is, the state a run returns is
\* determined by its own initial state and the responses to its own calls,
\* and two runs of the same graph with the same initial state and responses
\* return the same state.
C13_RunsIndependent ==
    /\ [](\A r \in Runs :
            pc[r] = "done" =>
                result[r].state = ExpectedResult(initState[r], response[r]))
    /\ [](\A r \in Runs, q \in Runs :
            (pc[r] = "done" /\ pc[q] = "done" /\ runGraph[r] = runGraph[q]
               /\ initState[r] = initState[q] /\ response[r] = response[q]) =>
                result[r] = result[q])
    /\ [][\E r \in Runs : \A q \in Runs \ {r} : RunUntouched(q)]_vars

\* A run that started second and returned while the first was still in its
\* content call, with a title other than the first one's.
C13_Witness ==
    \E r \in Runs, q \in Runs :
        /\ r < q
        /\ pc[r] = "running"
        /\ tasks[r]["content_generation"].status = "calling"
        /\ pc[q] = "done"
        /\ TopicGiven(initState[q])
        /\ result[q].state.blog.title # state[r].blog.title

\* C14: add_node, add_edge and build_topic_graph on the definition leave the
\* compiled graphs already returned, their nodes, edges and execution order,
\* as they are.
C14_CompiledGraphFrozen ==
    [][(\/ build_topic_graph
        \/ \E n \in NodeNames : HostAddNode(n)
        \/ \E e \in EdgeInputs : HostAddEdge(e[1], e[2])) =>
           /\ compiled' = compiled
           /\ prevCompiled' = prevCompiled
           /\ ExecOrder(compiled') = ExecOrder(compiled)]_vars

\* An edge added to the definition after compile(), which the compiled graph
\* does not have.
C14_Witness ==
    /\ compiled.valid
    /\ lastCall.op = "add_edge" /\ lastCall.error = "none"
    /\ compiled.nodes = nodes
    /\ compiled.edges # edges
    /\ compiled.edges \subseteq edges

\* C15: the update of a node replaces the state's blog as a whole. In a run
\* of the shipped topology, the step in which a node's LLM call returns x
\* and the run goes on leaves the blog equal to what the node returned (the
\* new title alone after title_creation, whatever the blog held before) and
\* the topic as it was.
C15_BlogUpdateReplaces ==
    /\ [][\A r \in Runs, n \in NodeNames, x \in LLMResults :
            (LLMReturn(r, n, x) /\ Shipped(r) /\ pc'[r] # "failed") =>
                /\ state'[r].blog = NodeAction(n, state[r], x).blog
                /\ n = "title_creation" => state'[r].blog = Blog(x, Absent)
                /\ state'[r].topic = state[r].topic]_vars
    /\ [](\A r \in Runs :
            (Shipped(r) /\ TopicGiven(initState[r])
               /\ tasks[r]["content_generation"].status \in {"scheduled", "calling"}) =>
                state[r].blog = Blog(response[r]["title_creation"], Absent))

\* A run started with a blog that had a title and a content, after
\* title_creation: the blog holds the new title and nothing else.
C15_Witness ==
    \E r \in Runs :
        /\ Shipped(r)
        /\ initState[r] = BlogState("rust vs go", Blog("old title", "old content"))
        /\ tasks[r]["content_generation"].status = "scheduled"
        /\ state[r].blog.title \in LLMResults
        /\ state[r].blog.content = Absent

\* C16: in a run of the shipped topology, whatever the initial state,
\* content_generation is never scheduled or running with a topic on a state
\* that has no blog.title, and no run ends with the missing-field error.
C16_ShippedNeverLacksTitle ==
    \A r \in Runs :
        Shipped(r) =>
            /\ error[r] # "KeyError"
            /\ (/\ tasks[r]["content_generation"].status \in {"scheduled", "calling"}
                /\ TopicGiven(state[r])) => HasTitle(state[r])

\* One shipped run, started with a topic and no blog, is in its content
\* call on the title produced; another, started without a topic and without
\* a blog, has invoked content_generation and returned.
C16_Witness ==
    \E r \in Runs, q \in Runs :
        /\ Shipped(r) /\ Shipped(q)
        /\ initState[r] = BlogState("rust vs go", NoBlog)
        /\ tasks[r]["content_generation"].status = "calling"
        /\ HasTitle(state[r])
        /\ initState[q].blog = NoBlog /\ ~TopicGiven(initState[q])
        /\ invoked[q]["content_generation"] = 1
        /\ pc[q] = "done"

\* Run r has ended: invoke has returned or raised.
Ended(r) == pc[r] \in {"done", "failed"}

\* C17: every run of the shipped topology, each of its LLM calls returning
\* or failing, ends: it returns the current state with no task left, or it
\* aborts with the error raised. No node is invoked twice, and after the end
\* of a run no node of it is invoked and nothing of it changes.
C17_ShippedRunTerminates ==
    /\ \A r \in Runs : (Shipped(r) /\ pc[r] = "running") ~> Ended(r)
    /\ [](\A r \in Runs :
            Shipped(r) =>
                /\ \A n \in NodeNames : invoked[r][n] <= 1
                /\ pc[r] = "done" =>
                      /\ result[r].returned /\ result[r].state = state[r]
                      /\ tasks[r] = NoTasks /\ error[r] = "none"
                /\ pc[r] = "failed" =>
                      /\ ~result[r].returned
                      /\ tasks[r] = NoTasks /\ error[r] # "none")
    /\ [][\A r \in Runs :
            (Shipped(r) /\ Ended(r)) =>
                /\ pc'[r] = pc[r]
                /\ invoked'[r] = invoked[r]
                /\ llmCalls'[r] = llmCalls[r]
                /\ state'[r] = state[r]
                /\ result'[r] = result[r]]_vars

\* One shipped run has returned after invoking each node once, another has
\* aborted in its content call.
C17_Witness ==
    \E r \in Runs, q \in Runs :
        /\ Shipped(r) /\ Shipped(q)
        /\ pc[r] = "done" /\ TopicGiven(initState[r])
        /\ \A n \in NodeNames : invoked[r][n] = 1 /\ completed[r][n] = 1
        /\ pc[q] = "failed"
        /\ invoked[q]["content_generation"] = 1

====
